---- MODULE Spec2Model ----
(***************************************************************************)
(* The code synchronization service of the collaborative editor            *)
(* (apps/server/src/service/code-service.ts) and the socket handlers that  *)
(* call it (apps/server/src/index.ts).                                     *)
(*                                                                         *)
(* A JavaScript string is a sequence of one-character strings, a           *)
(* JavaScript array is a sequence, array indices are the 0-based numbers   *)
(* of the code, and the Map roomData is a function whose domain is the set *)
(* of keys it holds.                                                       *)
(***************************************************************************)
EXTENDS Integers, Sequences, FiniteSets, TLC

(***************************************************************************)
(* Bounds of the model.                                                    *)
(***************************************************************************)
\* longest stored text the applier is started from
MaxInitLen == 2
\* longest replacement text of an operation given to the applier
MaxTxtLen == 2
\* largest line number of an operation given to the applier
MaxLineNum == 3
\* largest column number of an operation given to the applier
MaxColNum == 3
\* longest text a room stores in the server model
MaxCodeLen == 1

(***************************************************************************)
(* JavaScript values and built-ins the service uses.                       *)
(***************************************************************************)
NL == "\n"

\* the characters of the stored texts the applier is started from
Char == {"a", "b", NL}

\* the characters of the replacement texts given to the applier
OpChar == {"z", NL}

\* the string ''
EmptyString == << >>

\* undefined as an array element: a hole left by `lines.length = n`, or an
\* index outside the array
Undefined == <<"undefined">>

\* undefined where a room id or a custom id is expected
NoValue == "undefined"

Min(a, b) == IF a < b THEN a ELSE b

Max(a, b) == IF a > b THEN a ELSE b

\* V8's String::kMaxLength: building a longer string throws RangeError
MaxStringLength == 536870912 - 24

\* value || ''
OrEmpty(value) == IF value = Undefined THEN EmptyString ELSE value

\* String.prototype.substring(start, end)
Substring(str, start, end) ==
  LET s == Max(0, Min(start, Len(str)))
      e == Max(0, Min(end, Len(str)))
  IN SubSeq(str, Min(s, e) + 1, Max(s, e))

\* String.prototype.split('\n')
RECURSIVE Split(_)
Split(str) ==
  IF \E i \in 1..Len(str) : str[i] = NL
  THEN LET i == CHOOSE k \in 1..Len(str) :
                  str[k] = NL /\ \A j \in 1..(k - 1) : str[j] # NL
       IN <<SubSeq(str, 1, i - 1)>> \o Split(SubSeq(str, i + 1, Len(str)))
  ELSE <<str>>

\* Array.prototype.join('\n'): a hole or undefined joins as ''
RECURSIVE Join(_)
Join(arr) ==
  IF Len(arr) = 0 THEN EmptyString
  ELSE IF Len(arr) = 1 THEN OrEmpty(arr[1])
  ELSE OrEmpty(arr[1]) \o <<NL>> \o Join(Tail(arr))

\* arr[index]
ArrayGet(arr, index) ==
  IF index >= 0 /\ index < Len(arr) THEN arr[index + 1] ELSE Undefined

\* arr[index] = value: a negative index names a property, not an element;
\* an index past the end lengthens the array and leaves holes
ArraySet(arr, index, value) ==
  IF index < 0 THEN arr
  ELSE IF index < Len(arr) THEN [arr EXCEPT ![index + 1] = value]
  ELSE arr \o [k \in 1..(index - Len(arr)) |-> Undefined] \o <<value>>

\* arr.length = n
SetLength(arr, n) ==
  IF n <= Len(arr) THEN SubSeq(arr, 1, n)
  ELSE arr \o [k \in 1..(n - Len(arr)) |-> Undefined]

\* Array.prototype.fill(value, start, end) with start, end >= 0
Fill(arr, value, start, end) ==
  [k \in 1..Len(arr) |->
     IF k - 1 >= Min(start, Len(arr)) /\ k - 1 < Min(end, Len(arr))
     THEN value ELSE arr[k]]

\* Array.prototype.splice(start, deleteCount, ...items)
ArraySplice(arr, start, deleteCount, items) ==
  LET len == Len(arr)
      actualStart == IF start < 0 THEN Max(len + start, 0) ELSE Min(start, len)
      actualDelete == Min(Max(deleteCount, 0), len - actualStart)
  IN SubSeq(arr, 1, actualStart) \o items
       \o SubSeq(arr, actualStart + actualDelete + 1, len)

\* Array.prototype.slice(start, end)
ArraySlice(arr, start, end) ==
  LET len == Len(arr)
      from == IF start < 0 THEN Max(len + start, 0) ELSE Min(start, len)
      to == IF end < 0 THEN Max(len + end, 0) ELSE Min(end, len)
  IN SubSeq(arr, from + 1, to)

(***************************************************************************)
(* The edit operation [txt, startLnNum, startCol, endLnNum, endCol].       *)
(***************************************************************************)
EditOp(txt, startLnNum, startCol, endLnNum, endCol) ==
  <<txt, startLnNum, startCol, endLnNum, endCol>>

(***************************************************************************)
(* spliceString and the body of updateCode between reading the stored text *)
(* and writing it back.                                                    *)
(***************************************************************************)
\* spliceString taking its second fast path whenever start is 0, whatever
\* end is (a fault seeded for C5)
spliceString_fromStart(original, start, end, insert) ==
  IF start = end /\ insert = EmptyString THEN original
  ELSE IF start = 0 THEN insert
  ELSE Substring(original, 0, start) \o insert
         \o Substring(original, end, Len(original))

spliceString(original, start, end, insert) ==
  IF start = end /\ insert = EmptyString THEN original
  ELSE IF start = 0 /\ end = Len(original) THEN insert
  ELSE Substring(original, 0, start) \o insert
         \o Substring(original, end, Len(original))

\* lines 142-148: the split lines, lengthened to startLnNum
paddedLines(currentCode, startLnNum) ==
  LET lines == Split(currentCode)
      maxLine == Max(Len(lines), startLnNum)
  IN IF maxLine > Len(lines)
     THEN LET resized == SetLength(lines, maxLine)
          IN Fill(resized, EmptyString, Len(resized), maxLine)
     ELSE lines

isEmptyLineDeletion(operation) ==
  /\ operation[1] = EmptyString
  /\ operation[2] < operation[4]
  /\ operation[3] = 1
  /\ operation[5] = 1

\* the whole-line deletion removing the end line too (a fault seeded for
\* C4)
deleteLines_inclusive(lines, operation) ==
  ArraySplice(lines, operation[2] - 1, operation[4] - operation[2] + 1, << >>)

\* lines 153-154: the whole-line deletion
deleteLines(lines, operation) ==
  ArraySplice(lines, operation[2] - 1, operation[4] - operation[2], << >>)

\* the single-line edit inserting at startCol and removing nothing (a fault
\* seeded for C3)
singleLineEdit_insertOnly(lines, operation) ==
  LET lineIndex == operation[2] - 1
      line == OrEmpty(ArrayGet(lines, lineIndex))
      safeStartCol == Max(0, Min(operation[3] - 1, Len(line)))
  IN ArraySet(lines, lineIndex,
              spliceString(line, safeStartCol, safeStartCol, operation[1]))

\* lines 155-162
singleLineEdit(lines, operation) ==
  LET txt == operation[1]
      startLnNum == operation[2]
      startCol == operation[3]
      endCol == operation[5]
      lineIndex == startLnNum - 1
      line == OrEmpty(ArrayGet(lines, lineIndex))
      safeStartCol == Max(0, Min(startCol - 1, Len(line)))
      safeEndCol == Max(0, Min(endCol - 1, Len(line)))
  IN ArraySet(lines, lineIndex, spliceString(line, safeStartCol, safeEndCol, txt))

\* lines 163-199 without the splice of lines 193-195: with two new lines, the
\* spanned lines after the second stay (a fault seeded for C14)
multiLineEdit_keepsSpanned(lines, operation) ==
  LET txt == operation[1]
      startLnNum == operation[2]
      startCol == operation[3]
      endLnNum == operation[4]
      endCol == operation[5]
      textLines == Split(txt)
      startLineIndex == startLnNum - 1
      endLineIndex == endLnNum - 1
      startLine == OrEmpty(ArrayGet(lines, startLineIndex))
      endLine == OrEmpty(ArrayGet(lines, endLineIndex))
      safeStartCol == Min(Max(0, startCol - 1), Len(startLine))
      safeEndCol == Min(Max(0, endCol - 1), Len(endLine))
      newStartLine ==
        spliceString(startLine, safeStartCol, Len(startLine), textLines[1])
      newEndLine ==
        spliceString(endLine, 0, safeEndCol, textLines[Len(textLines)])
      newLinesCount == Len(textLines)
      removedLinesCount == endLineIndex - startLineIndex + 1
  IN IF newLinesCount = 2
     THEN ArraySet(ArraySet(lines, startLineIndex, newStartLine),
                   startLineIndex + 1, newEndLine)
     ELSE LET newLines ==
                <<newStartLine>> \o ArraySlice(textLines, 1, -1)
                  \o <<newEndLine>>
          IN ArraySplice(lines, startLineIndex, removedLinesCount, newLines)

\* lines 163-199
multiLineEdit(lines, operation) ==
  LET txt == operation[1]
      startLnNum == operation[2]
      startCol == operation[3]
      endLnNum == operation[4]
      endCol == operation[5]
      textLines == Split(txt)
      startLineIndex == startLnNum - 1
      endLineIndex == endLnNum - 1
      startLine == OrEmpty(ArrayGet(lines, startLineIndex))
      endLine == OrEmpty(ArrayGet(lines, endLineIndex))
      safeStartCol == Min(Max(0, startCol - 1), Len(startLine))
      safeEndCol == Min(Max(0, endCol - 1), Len(endLine))
      newStartLine ==
        spliceString(startLine, safeStartCol, Len(startLine), textLines[1])
      newEndLine ==
        spliceString(endLine, 0, safeEndCol, textLines[Len(textLines)])
      newLinesCount == Len(textLines)
      removedLinesCount == endLineIndex - startLineIndex + 1
  IN IF newLinesCount = 2
     THEN LET first == ArraySet(lines, startLineIndex, newStartLine)
              second == ArraySet(first, startLineIndex + 1, newEndLine)
          IN IF removedLinesCount > 2
             THEN ArraySplice(second, startLineIndex + 2,
                              removedLinesCount - 2, << >>)
             ELSE second
     ELSE LET newLines ==
                <<newStartLine>> \o ArraySlice(textLines, 1, -1)
                  \o <<newEndLine>>
          IN ArraySplice(lines, startLineIndex, removedLinesCount, newLines)

\* lines 139-202: the text updateCode computes from the stored text
updatedCode(currentCode, operation) ==
  LET lines == paddedLines(currentCode, operation[2])
  IN Join(IF isEmptyLineDeletion(operation)
          THEN deleteLines(lines, operation)
          ELSE IF operation[2] = operation[4]
          THEN singleLineEdit(lines, operation)
          ELSE multiLineEdit(lines, operation))

\* The joined text has one separator between any two of its lines, and no
\* path of updateCode leaves fewer than startLnNum - 1 lines: when that
\* alone exceeds the longest string, lines.join at line 202 throws
\* RangeError (a start line above 2^32 - 1 throws already at line 146).
throwsRangeError(currentCode, operation) ==
  Max(Len(Split(currentCode)), operation[2]) - 2 > MaxStringLength

(***************************************************************************)
(* The state of the server.                                                *)
(***************************************************************************)
VARIABLES
  roomData,   \* the Map roomData: room id -> [code, langId]
  userRoom,   \* what getUserRoom answers for each socket
  customId,   \* what getCustomId answers for each socket id
  run,        \* the handler that ran last, with its arguments and outcome
  emitted,    \* the emit calls of that run, in order, each with the store
              \* as it was when the call was made
  before,     \* roomData when that run began
  log         \* the relays, the writes of a text and the deletions of a
              \* room so far, in the order they happened

vars == <<roomData, userRoom, customId, run, emitted, before, log>>

SocketIDs == {"s1", "s2", "s3"}

RoomIDs == {"r1", "r2"}

DEFAULT_LANG_ID == "html"

LangIDs == {"python", ""}

\* the Map with no key
EmptyMap == [roomID \in {} |-> [code |-> EmptyString, langId |-> DEFAULT_LANG_ID]]

roomExists(data, roomID) == roomID \in DOMAIN data

\* the Map after initializeRoom(roomID)
initializeRoom(data, roomID) ==
  IF roomID \in DOMAIN data THEN data
  ELSE [r \in DOMAIN data \cup {roomID} |->
          IF r = roomID THEN [code |-> EmptyString, langId |-> DEFAULT_LANG_ID]
          ELSE data[r]]

getCode(data, roomID) ==
  IF roomID \in DOMAIN data /\ data[roomID].code # EmptyString
  THEN data[roomID].code
  ELSE EmptyString

getLang(data, roomID) ==
  IF roomID \in DOMAIN data /\ data[roomID].langId # ""
  THEN data[roomID].langId
  ELSE DEFAULT_LANG_ID

\* the Map after setLang(roomID, langId)
setLang(data, roomID, langId) ==
  [initializeRoom(data, roomID) EXCEPT ![roomID].langId = langId]

\* roomData.set(roomID, { code, langId: DEFAULT_LANG_ID }) in place of
\* lines 203-204: the text written with a fresh entry (a fault seeded for
\* C22)
setCode_freshEntry(data, roomID, code) ==
  [r \in DOMAIN data \cup {roomID} |->
     IF r = roomID THEN [code |-> code, langId |-> DEFAULT_LANG_ID]
     ELSE data[r]]

\* the text written to the entry only where the room has one (a fault seeded
\* for C12)
setCode_existingOnly(data, roomID, code) ==
  IF roomID \in DOMAIN data
  THEN [data EXCEPT ![roomID].code = code]
  ELSE data

\* the Map after lines 203-204: initializeRoom(roomID).code = code
setCode(data, roomID, code) ==
  [initializeRoom(data, roomID) EXCEPT ![roomID].code = code]

\* the entry of the room set back to the empty text and the default
\* language, the key kept (a fault seeded for C19)
deleteRoom_reset(data, roomID) ==
  [r \in DOMAIN data \cup {roomID} |->
     IF r = roomID THEN [code |-> EmptyString, langId |-> DEFAULT_LANG_ID]
     ELSE data[r]]

\* roomData.clear() in place of roomData.delete(roomID) (a fault seeded for
\* C20)
deleteRoom_clear(data, roomID) == EmptyMap

\* the Map after deleteRoom(roomID)
deleteRoom(data, roomID) ==
  [r \in DOMAIN data \ {roomID} |-> data[r]]

getUserRoom(socket) == userRoom[socket]

getCustomId(socket) == customId[socket]

\* the sockets of the socket.io room roomID
roomMembers(roomID) == {s \in SocketIDs : userRoom[s] = roomID}

\* io.to(roomID).emit in place of socket.to(roomID).emit: the sender
\* included (a fault seeded for C9)
emitToRoom_all(socket, roomID, msg, payload, data) ==
  [msg |-> msg, payload |-> payload, to |-> roomMembers(roomID),
   store |-> data]

\* socket.to(roomID).emit(msg, payload): to the room, except the sender
emitToRoom(socket, roomID, msg, payload, data) ==
  [msg |-> msg, payload |-> payload,
   to |-> roomMembers(roomID) \ {socket}, store |-> data]

\* io.to(roomID).emit in place of io.to(socket.id).emit: the whole room (a
\* fault seeded for C8)
emitToSocket_room(socket, msg, payload, data) ==
  [msg |-> msg, payload |-> payload, to |-> roomMembers(userRoom[socket]),
   store |-> data]

\* io.to(socket.id).emit(msg, payload): to that socket alone
emitToSocket(socket, msg, payload, data) ==
  [msg |-> msg, payload |-> payload, to |-> {socket}, store |-> data]

NoOp == EditOp(EmptyString, 0, 0, 0, 0)

Ran(handler, socket, operation, langId, outcome) ==
  [handler |-> handler, socket |-> socket, operation |-> operation,
   langId |-> langId, outcome |-> outcome]

(***************************************************************************)
(* updateCode(socket, operation), lines 131-205.                           *)
(***************************************************************************)
\* updateCode testing the room alone at line 135 (a fault seeded for C7)
UpdateCode_noIdentityCheck(socket, operation) ==
  LET roomID == getUserRoom(socket)
      id == getCustomId(socket)
  IN /\ before' = roomData
     /\ UNCHANGED <<userRoom, customId>>
     /\ IF roomID = NoValue
        THEN /\ run' = Ran("updateCode", socket, operation, NoValue, "dropped")
             /\ emitted' = << >>
             /\ UNCHANGED roomData
        ELSE /\ emitted' =
                  <<emitToRoom(socket, roomID, "UPDATE_CODE", operation, roomData)>>
             /\ IF throwsRangeError(getCode(roomData, roomID), operation)
                THEN /\ run' = Ran("updateCode", socket, operation, NoValue,
                                   "RangeError")
                     /\ UNCHANGED roomData
                ELSE /\ run' = Ran("updateCode", socket, operation, NoValue,
                                   "done")
                     /\ roomData' =
                          setCode(roomData, roomID,
                                  updatedCode(getCode(roomData, roomID), operation))

UpdateCode(socket, operation) ==
  LET roomID == getUserRoom(socket)
      id == getCustomId(socket)
  IN /\ before' = roomData
     /\ UNCHANGED <<userRoom, customId>>
     /\ IF id = NoValue \/ roomID = NoValue
        THEN /\ run' = Ran("updateCode", socket, operation, NoValue, "dropped")
             /\ emitted' = << >>
             /\ UNCHANGED roomData
        ELSE /\ emitted' =
                  <<emitToRoom(socket, roomID, "UPDATE_CODE", operation, roomData)>>
             /\ IF throwsRangeError(getCode(roomData, roomID), operation)
                THEN /\ run' = Ran("updateCode", socket, operation, NoValue,
                                   "RangeError")
                     /\ UNCHANGED roomData
                ELSE /\ run' = Ran("updateCode", socket, operation, NoValue,
                                   "done")
                     /\ roomData' =
                          setCode(roomData, roomID,
                                  updatedCode(getCode(roomData, roomID), operation))

(***************************************************************************)
(* syncCode, syncLang and updateLang, lines 76-112.                        *)
(***************************************************************************)
\* syncCode reading the text through initializeRoom(roomID).code in place of
\* getCode(roomID) (a fault seeded for C13)
SyncCode_initializes(socket) ==
  LET roomID == getUserRoom(socket)
      id == getCustomId(socket)
  IN /\ before' = roomData
     /\ UNCHANGED <<userRoom, customId>>
     /\ IF roomID # NoValue /\ id # NoValue
        THEN /\ run' = Ran("syncCode", socket, NoOp, NoValue, "done")
             /\ roomData' = initializeRoom(roomData, roomID)
             /\ emitted' =
                  <<emitToSocket(socket, "SYNC_CODE", getCode(roomData, roomID),
                                 roomData)>>
        ELSE /\ run' = Ran("syncCode", socket, NoOp, NoValue, "dropped")
             /\ emitted' = << >>
             /\ UNCHANGED roomData

SyncCode(socket) ==
  LET roomID == getUserRoom(socket)
      id == getCustomId(socket)
  IN /\ before' = roomData
     /\ UNCHANGED <<roomData, userRoom, customId>>
     /\ IF roomID # NoValue /\ id # NoValue
        THEN /\ run' = Ran("syncCode", socket, NoOp, NoValue, "done")
             /\ emitted' =
                  <<emitToSocket(socket, "SYNC_CODE", getCode(roomData, roomID),
                                 roomData)>>
        ELSE /\ run' = Ran("syncCode", socket, NoOp, NoValue, "dropped")
             /\ emitted' = << >>

SyncLang(socket) ==
  LET roomID == getUserRoom(socket)
      id == getCustomId(socket)
  IN /\ before' = roomData
     /\ UNCHANGED <<roomData, userRoom, customId>>
     /\ IF roomID # NoValue /\ id # NoValue
        THEN /\ run' = Ran("syncLang", socket, NoOp, NoValue, "done")
             /\ emitted' =
                  <<emitToSocket(socket, "UPDATE_LANG", getLang(roomData, roomID),
                                 roomData)>>
        ELSE /\ run' = Ran("syncLang", socket, NoOp, NoValue, "dropped")
             /\ emitted' = << >>

\* updateLang with lines 109 and 110 exchanged: the emit is made while the
\* store holds what it held (a fault seeded for C18)
UpdateLang_emitFirst(socket, langId) ==
  LET roomID == getUserRoom(socket)
      id == getCustomId(socket)
  IN /\ before' = roomData
     /\ UNCHANGED <<userRoom, customId>>
     /\ IF roomID # NoValue /\ id # NoValue
        THEN /\ run' = Ran("updateLang", socket, NoOp, langId, "done")
             /\ emitted' =
                  <<emitToRoom(socket, roomID, "UPDATE_LANG", langId, roomData)>>
             /\ roomData' = setLang(roomData, roomID, langId)
        ELSE /\ run' = Ran("updateLang", socket, NoOp, langId, "dropped")
             /\ emitted' = << >>
             /\ UNCHANGED roomData

UpdateLang(socket, langId) ==
  LET roomID == getUserRoom(socket)
      id == getCustomId(socket)
  IN /\ before' = roomData
     /\ UNCHANGED <<userRoom, customId>>
     /\ IF roomID # NoValue /\ id # NoValue
        THEN /\ run' = Ran("updateLang", socket, NoOp, langId, "done")
             /\ roomData' = setLang(roomData, roomID, langId)
             /\ emitted' =
                  <<emitToRoom(socket, roomID, "UPDATE_LANG", langId,
                               setLang(roomData, roomID, langId))>>
        ELSE /\ run' = Ran("updateLang", socket, NoOp, langId, "dropped")
             /\ emitted' = << >>
             /\ UNCHANGED roomData

\* deleteRoom(roomID), called by the room service when a room is torn down
DeleteRoom(roomID) ==
  /\ before' = roomData
  /\ roomData' = deleteRoom(roomData, roomID)
  /\ run' = Ran("deleteRoom", roomID, NoOp, NoValue, "done")
  /\ emitted' = << >>
  /\ UNCHANGED <<userRoom, customId>>

(***************************************************************************)
(* The collaborators: the room service decides what getUserRoom answers,   *)
(* the user service what getCustomId answers.                              *)
(***************************************************************************)
SetUserRoom(socket, roomID) ==
  /\ userRoom[socket] # roomID
  /\ userRoom' = [userRoom EXCEPT ![socket] = roomID]
  /\ before' = roomData
  /\ run' = Ran("setUserRoom", NoValue, NoOp, NoValue, "done")
  /\ emitted' = << >>
  /\ UNCHANGED <<roomData, customId>>

SetCustomId(socket, id) ==
  /\ customId[socket] # id
  /\ customId' = [customId EXCEPT ![socket] = id]
  /\ before' = roomData
  /\ run' = Ran("setCustomId", NoValue, NoOp, NoValue, "done")
  /\ emitted' = << >>
  /\ UNCHANGED <<roomData, userRoom>>

(***************************************************************************)
(* The server: every handler, on operations from a small set.              *)
(***************************************************************************)
\* a start line whose join exceeds the longest string on every path
HugeLine == MaxStringLength + 3

ServerOps ==
  { EditOp(<<"a">>, 1, 1, 1, 1),
    EditOp(<<"a">>, 1, 5, 1, 9),
    EditOp(EmptyString, 2, 1, 2, 1),
    EditOp(EmptyString, 1, 1, 2, 1),
    EditOp(<<"a">>, HugeLine, 1, HugeLine, 1) }

\* the store stays within the bound of the model
CodeFits(socket, operation) ==
  IF getUserRoom(socket) = NoValue \/ getCustomId(socket) = NoValue THEN TRUE
  ELSE IF throwsRangeError(getCode(roomData, getUserRoom(socket)), operation)
  THEN TRUE
  ELSE Len(updatedCode(getCode(roomData, getUserRoom(socket)), operation))
         <= MaxCodeLen

\* no handler runs once an exception has ended the process
Running == run.outcome # "RangeError"

\* the sockets whose custom id comes and goes
Anonymous == {"s1"}

Init ==
  /\ roomData = EmptyMap
  /\ userRoom = [s \in SocketIDs |-> NoValue]
  /\ customId = [s \in SocketIDs |-> IF s \in Anonymous THEN NoValue ELSE "id"]
  /\ run = Ran("none", NoValue, NoOp, NoValue, "none")
  /\ emitted = << >>
  /\ before = EmptyMap
  /\ log = << >>

OnUpdateCode ==
  /\ Running
  /\ \E socket \in SocketIDs, operation \in ServerOps :
       CodeFits(socket, operation) /\ UpdateCode(socket, operation)
  /\ UNCHANGED log

OnSyncCode ==
  /\ Running
  /\ \E socket \in SocketIDs : SyncCode(socket)
  /\ UNCHANGED log

OnSyncLang ==
  /\ Running
  /\ \E socket \in SocketIDs : SyncLang(socket)
  /\ UNCHANGED log

OnUpdateLang ==
  /\ Running
  /\ \E socket \in SocketIDs, langId \in LangIDs : UpdateLang(socket, langId)
  /\ UNCHANGED log

OnDeleteRoom ==
  /\ Running
  /\ \E roomID \in RoomIDs : DeleteRoom(roomID)
  /\ UNCHANGED log

OnSetUserRoom ==
  /\ Running
  /\ \E socket \in SocketIDs, roomID \in RoomIDs \cup {NoValue} :
       SetUserRoom(socket, roomID)
  /\ UNCHANGED log

OnSetCustomId ==
  /\ Running
  /\ \E socket \in Anonymous, id \in {"id", NoValue} : SetCustomId(socket, id)
  /\ UNCHANGED log

Next ==
  \/ OnUpdateCode
  \/ OnSyncCode
  \/ OnSyncLang
  \/ OnUpdateLang
  \/ OnDeleteRoom
  \/ OnSetUserRoom
  \/ OnSetCustomId

Spec == Init /\ [][Next]_vars

(***************************************************************************)
(* The applier alone: one operation applied to one stored text, both drawn *)
(* from bounded sets.                                                      *)
(***************************************************************************)
StringsUpTo(chars, n) == UNION {[1..k -> chars] : k \in 0..n}

\* the texts and operations of the specification's examples
ExampleTexts ==
  { <<"a", "b">>,
    <<"a", "b", NL, "c", "d">>,
    <<"a", NL, "b", NL, "c", NL, "d", NL, "e">> }

ExampleOps ==
  { EditOp(<<"Z">>, 1, 2, 2, 2),
    EditOp(EmptyString, 2, 1, 4, 1),
    EditOp(<<"X">>, 1, 2, 1, 2),
    EditOp(<<"X", NL, "Y", NL, "Z">>, 1, 1, 1, 1) }

\* operations with negative coordinates, and with a start line far beyond
\* any document
MalformedOps ==
  { EditOp(<<"z">>, -1, 1, -1, 1),
    EditOp(EmptyString, -1, 1, 1, 1),
    EditOp(<<"z", NL>>, -1, -1, 0, -1),
    EditOp(<<"z">>, 1, -1, 2, -2),
    EditOp(EmptyString, HugeLine, 1, HugeLine, 1),
    EditOp(EmptyString, HugeLine, 1, HugeLine + 1, 1),
    EditOp(<<"z">>, HugeLine, 1, 1, 1) }

InitTexts == StringsUpTo(Char, MaxInitLen) \cup ExampleTexts

ApplyOps ==
  { EditOp(txt, startLnNum, startCol, endLnNum, endCol) :
      txt \in StringsUpTo(OpChar, MaxTxtLen),
      startLnNum \in 0..MaxLineNum, startCol \in 0..MaxColNum,
      endLnNum \in 0..MaxLineNum, endCol \in 0..MaxColNum }
  \cup ExampleOps
  \cup MalformedOps

\* the number of characters of the text before (line, col): every line
\* above `line` with its newline, and col - 1 characters of the line
RECURSIVE OffsetOf(_, _, _)
OffsetOf(lines, line, col) ==
  IF line = 1 THEN col - 1
  ELSE Len(lines[1]) + 1 + OffsetOf(Tail(lines), line - 1, col)

\* (startLnNum, startCol) .. (endLnNum, endCol) names a range of the text:
\* both lines exist, both columns are on their line or just past its end,
\* and the start is not after the end
InDocument(text, startLnNum, startCol, endLnNum, endCol) ==
  LET lines == Split(text)
  IN /\ 1 <= startLnNum /\ startLnNum <= endLnNum /\ endLnNum <= Len(lines)
     /\ 1 <= startCol /\ startCol <= Len(lines[startLnNum]) + 1
     /\ 1 <= endCol /\ endCol <= Len(lines[endLnNum]) + 1
     /\ startLnNum = endLnNum => startCol <= endCol

\* the characters of the text from (startLnNum, startCol) inclusive to
\* (endLnNum, endCol) exclusive
RangeContent(text, startLnNum, startCol, endLnNum, endCol) ==
  SubSeq(text, OffsetOf(Split(text), startLnNum, startCol) + 1,
               OffsetOf(Split(text), endLnNum, endCol))

\* the operations that replace a range of the text by its own content
SelfOps(text) ==
  { EditOp(RangeContent(text, c[1], c[2], c[3], c[4]), c[1], c[2], c[3], c[4]) :
      c \in { d \in (1..MaxLineNum) \X (1..MaxColNum) \X (1..MaxLineNum)
                      \X (1..MaxColNum) :
                InDocument(text, d[1], d[2], d[3], d[4]) } }

InitApply ==
  /\ roomData \in
       {EmptyMap} \cup
       { [roomID \in {"r1"} |-> [code |-> text, langId |-> DEFAULT_LANG_ID]] :
           text \in InitTexts }
  /\ userRoom = [s \in SocketIDs |-> IF s = "s3" THEN "r2" ELSE "r1"]
  /\ customId = [s \in SocketIDs |-> "id"]
  /\ run = Ran("none", NoValue, NoOp, NoValue, "none")
  /\ emitted = << >>
  /\ before = roomData
  /\ log = << >>

NextApply ==
  /\ run.handler = "none"
  /\ \E operation \in ApplyOps \cup SelfOps(getCode(roomData, "r1")) :
       UpdateCode("s1", operation)
  /\ UNCHANGED log

SpecApply == InitApply /\ [][NextApply]_vars

(***************************************************************************)
(* The server with a record of what it did: each relay of an operation,    *)
(* each write of a text and each deletion of a room is appended to log as  *)
(* the handler makes it.  Two sockets are in room r1 and one in room r2;   *)
(* the identity of the sockets of Anonymous comes and goes.                *)
(***************************************************************************)
\* the record stops growing at this length
MaxLog == 4

Logged(kind, roomID, operation, to) ==
  [kind |-> kind, room |-> roomID, operation |-> operation, to |-> to]

\* what the run that just ended adds to the record: updateCode relays at
\* line 137 and writes the text at line 204, updateLang sets the language at
\* line 109, deleteRoom deletes at line 211
LogOfRun ==
  LET roomID == userRoom[run'.socket]
  IN CASE run'.handler = "updateCode" ->
            (IF emitted' # << >>
             THEN <<Logged("relay", roomID, run'.operation, emitted'[1].to)>>
             ELSE << >>)
            \o
            (IF run'.outcome = "done"
             THEN <<Logged("apply", roomID, run'.operation, {})>>
             ELSE << >>)
       [] run'.handler = "updateLang" /\ run'.outcome = "done" ->
            <<Logged("lang", roomID, NoOp, emitted'[1].to)>>
       [] run'.handler = "deleteRoom" ->
            <<Logged("delete", run'.socket, NoOp, {})>>
       [] OTHER -> << >>

InitOrder ==
  /\ roomData = EmptyMap
  /\ userRoom = [s \in SocketIDs |-> IF s = "s3" THEN "r2" ELSE "r1"]
  /\ customId = [s \in SocketIDs |-> IF s \in Anonymous THEN NoValue ELSE "id"]
  /\ run = Ran("none", NoValue, NoOp, NoValue, "none")
  /\ emitted = << >>
  /\ before = EmptyMap
  /\ log = << >>

OrderUpdateCode ==
  /\ Running
  /\ Len(log) < MaxLog
  /\ \E socket \in SocketIDs, operation \in ServerOps :
       CodeFits(socket, operation) /\ UpdateCode(socket, operation)
  /\ log' = log \o LogOfRun

OrderUpdateLang ==
  /\ Running
  /\ Len(log) < MaxLog
  /\ \E socket \in SocketIDs, langId \in LangIDs : UpdateLang(socket, langId)
  /\ log' = log \o LogOfRun

OrderDeleteRoom ==
  /\ Running
  /\ Len(log) < MaxLog
  /\ \E roomID \in RoomIDs : DeleteRoom(roomID)
  /\ log' = log \o LogOfRun

OrderSetCustomId ==
  /\ Running
  /\ \E socket \in Anonymous, id \in {"id", NoValue} : SetCustomId(socket, id)
  /\ log' = log \o LogOfRun

NextOrder ==
  \/ OrderUpdateCode
  \/ OrderUpdateLang
  \/ OrderDeleteRoom
  \/ OrderSetCustomId

SpecOrder == InitOrder /\ [][NextOrder]_vars

(***************************************************************************)
(* What the last run of updateCode was given and what it left.             *)
(***************************************************************************)
\* updateCode ran and passed the check of room and identity
Accepted == run.handler = "updateCode" /\ run.outcome # "dropped"

\* updateCode ran to its end
Applied == run.handler = "updateCode" /\ run.outcome = "done"

RunRoom == userRoom[run.socket]

TextBefore == getCode(before, RunRoom)

TextAfter == getCode(roomData, RunRoom)

LinesBefore == Split(TextBefore)

OpTxt == run.operation[1]

OpStartLn == run.operation[2]

OpStartCol == run.operation[3]

OpEndLn == run.operation[4]

OpEndCol == run.operation[5]

\* the number of newline characters of a string
Newlines(str) == Cardinality({i \in 1..Len(str) : str[i] = NL})

\* both columns are on their line or just past its end
ColumnsInRange ==
  /\ 1 <= OpStartCol /\ OpStartCol <= Len(LinesBefore[OpStartLn]) + 1
  /\ 1 <= OpEndCol /\ OpEndCol <= Len(LinesBefore[OpEndLn]) + 1

\* the operation spans several lines of the stored text and is not the
\* whole-line deletion
MultiLineReplace ==
  /\ Applied
  /\ 1 <= OpStartLn /\ OpStartLn < OpEndLn /\ OpEndLn <= Len(LinesBefore)
  /\ ~isEmptyLineDeletion(run.operation)

\* the start line's prefix before startColumn
StartPrefix == SubSeq(LinesBefore[OpStartLn], 1, OpStartCol - 1)

\* the end line's suffix from endColumn
EndSuffix ==
  SubSeq(LinesBefore[OpEndLn], OpEndCol, Len(LinesBefore[OpEndLn]))

\* C1: a multi-line replace with in-range columns and a text without
\* newline leaves ONE line, prefix + text + suffix, in place of the lines
\* it spans, and every other line as it was.
C1_CollapseToOneLine ==
  (MultiLineReplace /\ ColumnsInRange /\ Newlines(OpTxt) = 0) =>
    TextAfter =
      Join(SubSeq(LinesBefore, 1, OpStartLn - 1)
             \o <<StartPrefix \o OpTxt \o EndSuffix>>
             \o SubSeq(LinesBefore, OpEndLn + 1, Len(LinesBefore)))

\* C2: a multi-line replace of removedLineCount lines by a text of k
\* newlines leaves originalLineCount - removedLineCount + (k + 1) lines.
C2_LineCountAccounting ==
  MultiLineReplace =>
    Len(Split(TextAfter)) =
      Len(LinesBefore) - (OpEndLn - OpStartLn + 1) + (Newlines(OpTxt) + 1)

\* the operation names one existing line and an ordered column range on it
SingleLineReplace ==
  /\ Applied
  /\ OpStartLn = OpEndLn /\ 1 <= OpStartLn /\ OpStartLn <= Len(LinesBefore)
  /\ 1 <= OpStartCol /\ OpStartCol <= OpEndCol
  /\ OpEndCol <= Len(LinesBefore[OpStartLn]) + 1

\* C3: a single-line operation with an ordered in-range column range
\* stores the text with the characters from startColumn to endColumn of
\* that line replaced by op.text, every other character kept; with k
\* newlines in op.text the stored text has k more lines.
C3_SingleLineReplace ==
  SingleLineReplace =>
    /\ TextAfter =
         SubSeq(TextBefore, 1, OffsetOf(LinesBefore, OpStartLn, OpStartCol))
           \o OpTxt
           \o SubSeq(TextBefore,
                     OffsetOf(LinesBefore, OpEndLn, OpEndCol) + 1,
                     Len(TextBefore))
    /\ Len(Split(TextAfter)) = Len(LinesBefore) + Newlines(OpTxt)
    /\ Newlines(OpTxt) = 0 =>
         /\ Len(Split(TextAfter)) = Len(LinesBefore)
         /\ \A n \in 1..Len(LinesBefore) :
              n # OpStartLn => Split(TextAfter)[n] = LinesBefore[n]
         /\ Split(TextAfter)[OpStartLn] =
              StartPrefix \o OpTxt \o EndSuffix

\* C3 witness: ("X", 1, 2, 1, 2) applied to "ab" has stored "aXb".
C3_Witness ==
  /\ Applied
  /\ run.operation = EditOp(<<"X">>, 1, 2, 1, 2)
  /\ TextBefore = <<"a", "b">>
  /\ TextAfter = <<"a", "X", "b">>

\* the operation is the whole-line deletion of existing lines
WholeLineDeletion ==
  /\ Applied
  /\ isEmptyLineDeletion(run.operation)
  /\ 1 <= OpStartLn /\ OpEndLn <= Len(LinesBefore)

\* C4: the whole-line deletion stores the original lines without the lines
\* startLine .. endLine - 1, the others unchanged and in order.
C4_WholeLineDeletion ==
  WholeLineDeletion =>
    /\ Split(TextAfter) =
         SubSeq(LinesBefore, 1, OpStartLn - 1)
           \o SubSeq(LinesBefore, OpEndLn, Len(LinesBefore))
    /\ TextAfter =
         Join(SubSeq(LinesBefore, 1, OpStartLn - 1)
                \o SubSeq(LinesBefore, OpEndLn, Len(LinesBefore)))

\* C4 witness: ("", 2, 1, 4, 1) applied to "a\nb\nc\nd\ne" has stored
\* "a\nd\ne".
C4_Witness ==
  /\ Applied
  /\ run.operation = EditOp(EmptyString, 2, 1, 4, 1)
  /\ TextBefore = <<"a", NL, "b", NL, "c", NL, "d", NL, "e">>
  /\ TextAfter = <<"a", NL, "d", NL, "e">>

\* the operation's text is the content of the range it names, a range of
\* the stored text
SelfReplace ==
  /\ Applied
  /\ InDocument(TextBefore, OpStartLn, OpStartCol, OpEndLn, OpEndCol)
  /\ OpTxt = RangeContent(TextBefore, OpStartLn, OpStartCol, OpEndLn, OpEndCol)

\* the operation names an ordered range that starts beyond the last line,
\* where there is no content, and its text is empty
EmptyReplaceBeyondEnd ==
  /\ Applied
  /\ OpStartLn > Len(LinesBefore)
  /\ OpStartLn < OpEndLn \/ (OpStartLn = OpEndLn /\ OpStartCol <= OpEndCol)
  /\ OpStartCol >= 1 /\ OpEndCol >= 1
  /\ OpTxt = EmptyString

\* C5 as stated: an operation whose text is the content of its range, a
\* range that starts beyond the last line included, leaves the stored text
\* as it was.
C5_NoOpAnyRange == (SelfReplace \/ EmptyReplaceBeyondEnd) => TextAfter = TextBefore

\* C5 amended: an operation whose range lies within the stored text and
\* whose text is the content of that range leaves the stored text as it was.
C5_NoOpInDocument == SelfReplace => TextAfter = TextBefore

\* C5 witness: a range over two lines, with characters before and after it,
\* replaced by its own content.
C5_Witness ==
  /\ SelfReplace
  /\ OpStartLn < OpEndLn
  /\ OpStartCol > 1
  /\ OpEndCol <= Len(LinesBefore[OpEndLn])
  /\ OpEndCol > 1
  /\ TextAfter = TextBefore

\* C6: updateCode on a resolved connection completes, whatever the
\* coordinates: no run ends in an exception.
C6_Totality == Accepted => run.outcome = "done"

(***************************************************************************)
(* The handlers on the server.                                             *)
(***************************************************************************)
\* the socket of the last run has a room and a custom id
Resolved == userRoom[run.socket] # NoValue /\ customId[run.socket] # NoValue

\* C7: an edit operation on a connection whose room or identity is
\* unresolved is dropped: nothing is emitted, no exception ends the run,
\* and the store, with the set of rooms it holds, is as before.
C7_UnresolvedDropped ==
  (run.handler = "updateCode" /\ ~Resolved) =>
    /\ run.outcome = "dropped"
    /\ emitted = << >>
    /\ roomData = before
    /\ DOMAIN roomData = DOMAIN before

\* C7 witness: an operation from a socket that is in a room with another
\* socket and a stored text, but has no custom id, was dropped.
C7_Witness ==
  /\ run.handler = "updateCode"
  /\ run.outcome = "dropped"
  /\ userRoom[run.socket] \in RoomIDs
  /\ customId[run.socket] = NoValue
  /\ roomMembers(userRoom[run.socket]) # {run.socket}
  /\ getCode(roomData, userRoom[run.socket]) # EmptyString

C9_RelayToRoom ==
  Accepted =>
    /\ Len(emitted) = 1
    /\ emitted[1].msg = "UPDATE_CODE"
    /\ emitted[1].payload = run.operation
    /\ emitted[1].to =
         {s \in SocketIDs : s # run.socket /\ userRoom[s] = userRoom[run.socket]}
    /\ run.socket \notin emitted[1].to
    /\ \A s \in emitted[1].to : userRoom[s] = userRoom[run.socket]

\* C9 witness: an operation whose coordinates the applier clamps was
\* relayed to the one other socket of the room while the third socket was
\* in the other room.
C9_Witness ==
  /\ Applied
  /\ run.operation = EditOp(<<"a">>, 1, 5, 1, 9)
  /\ Cardinality(emitted[1].to) = 1
  /\ \E s \in SocketIDs : userRoom[s] \in RoomIDs \ {userRoom[run.socket]}

\* C10: for every accepted edit operation the relay is emitted while the
\* store still holds what it held when the run began, and the run then
\* writes the room's text before it ends.
C10_RelayBeforeApply ==
  Accepted =>
    /\ Len(emitted) = 1
    /\ emitted[1].store = before
    /\ run.outcome = "done"
    /\ roomExists(roomData, RunRoom)

(***************************************************************************)
(* The order of arrival, read from the record.                             *)
(***************************************************************************)
\* where the record last deletes the room, 0 if it never does
LastDelete(roomID) ==
  LET at == {i \in 1..Len(log) :
               log[i].kind = "delete" /\ log[i].room = roomID}
  IN IF at = {} THEN 0 ELSE CHOOSE i \in at : \A j \in at : j <= i

\* the operations the record holds for the room under the kind, since the
\* room was last deleted, in the order of the record
OpsSince(kind, roomID) ==
  LET since == SubSeq(log, LastDelete(roomID) + 1, Len(log))
      mine == SelectSeq(since,
                        LAMBDA l : l.kind = kind /\ l.room = roomID)
  IN [i \in 1..Len(mine) |-> mine[i].operation]

AcceptedOps(roomID) == OpsSince("relay", roomID)

AppliedOps(roomID) == OpsSince("apply", roomID)

RECURSIVE FoldApply(_, _)
FoldApply(text, operations) ==
  IF operations = << >>
  THEN text
  ELSE FoldApply(updatedCode(text, Head(operations)), Tail(operations))

\* C11: the operations a room accepted are the operations applied to its
\* text, none left out, and the stored text of each room is the fold of the
\* applier over them, in the order of arrival, from the empty text the room
\* has at the start and after deleteRoom.
C11_ArrivalOrderFold ==
  \A roomID \in RoomIDs :
    /\ AcceptedOps(roomID) = AppliedOps(roomID)
    /\ getCode(roomData, roomID) = FoldApply(EmptyString, AppliedOps(roomID))

(***************************************************************************)
(* The store.                                                              *)
(***************************************************************************)
RunDone(handler) == run.handler = handler /\ run.outcome = "done"

\* the text the Map holds for the room, read without getCode
StoredCode(data, roomID) ==
  IF roomID \in DOMAIN data THEN data[roomID].code ELSE EmptyString

\* C12: the text written by an accepted edit is the text getCode returns and
\* syncCode sends, the empty text included; getCode of a room without an
\* entry returns the empty text, and so does getCode after deleteRoom.
C12_StoreRoundTrip ==
  /\ Applied =>
       /\ roomExists(roomData, RunRoom)
       /\ roomData[RunRoom].code = updatedCode(TextBefore, run.operation)
       /\ getCode(roomData, RunRoom) = roomData[RunRoom].code
  /\ RunDone("syncCode") =>
       emitted[1].payload = StoredCode(roomData, RunRoom)
  /\ \A roomID \in RoomIDs :
       ~roomExists(roomData, roomID) => getCode(roomData, roomID) = EmptyString
  /\ RunDone("deleteRoom") => getCode(roomData, run.socket) = EmptyString

\* an edit has emptied a text that was not empty
C12_Witness ==
  /\ Applied
  /\ TextBefore # EmptyString
  /\ roomData[RunRoom].code = EmptyString
  /\ getCode(roomData, RunRoom) = EmptyString

\* C13: an entry appears in the Map only in a run of updateCode or updateLang
\* that ran to its end, and only for the room of that run; syncCode and
\* syncLang leave the Map as it was and send the defaults for a room without
\* an entry; getCode and getLang answer for such a room what they answer for
\* an entry holding the empty text and the default language.
C13_LazyCreation ==
  /\ \A roomID \in RoomIDs :
       (roomExists(roomData, roomID) /\ ~roomExists(before, roomID)) =>
         /\ RunDone("updateCode") \/ RunDone("updateLang")
         /\ RunRoom = roomID
  /\ run.handler \in {"syncCode", "syncLang"} => roomData = before
  /\ (RunDone("syncCode") /\ ~roomExists(before, RunRoom)) =>
       (emitted[1].payload = EmptyString /\ ~roomExists(roomData, RunRoom))
  /\ (RunDone("syncLang") /\ ~roomExists(before, RunRoom)) =>
       (emitted[1].payload = DEFAULT_LANG_ID /\ ~roomExists(roomData, RunRoom))
  /\ \A roomID \in RoomIDs :
       ~roomExists(roomData, roomID) =>
         /\ getCode(roomData, roomID) = EmptyString
         /\ getLang(roomData, roomID) = DEFAULT_LANG_ID
         /\ getCode(initializeRoom(roomData, roomID), roomID)
              = getCode(roomData, roomID)
         /\ getLang(initializeRoom(roomData, roomID), roomID)
              = getLang(roomData, roomID)

\* syncCode has answered for a room without an entry, while the other room
\* has one
C13_Witness ==
  /\ RunDone("syncCode")
  /\ ~roomExists(roomData, RunRoom)
  /\ emitted[1].payload = EmptyString
  /\ DOMAIN roomData # {}

(***************************************************************************)
(* The applier on ranges of several lines, on lines beyond the text and on *)
(* columns beyond the line.                                                *)
(***************************************************************************)
\* C14: a multi-line replace with in-range columns and a text of k >= 1
\* newlines stores the lines before startLine, then prefix + textLines[0],
\* then textLines[1..k-1], then textLines[k] + suffix, then the lines after
\* endLine; that is the stored text with the characters of the range
\* replaced by op.text.
C14_MultiLineReplace ==
  (MultiLineReplace /\ ColumnsInRange /\ Newlines(OpTxt) >= 1) =>
    LET textLines == Split(OpTxt)
        k == Newlines(OpTxt)
    IN /\ Len(textLines) = k + 1
       /\ TextAfter =
            Join(SubSeq(LinesBefore, 1, OpStartLn - 1)
                   \o <<StartPrefix \o textLines[1]>>
                   \o SubSeq(textLines, 2, k)
                   \o <<textLines[k + 1] \o EndSuffix>>
                   \o SubSeq(LinesBefore, OpEndLn + 1, Len(LinesBefore)))
       /\ TextAfter =
            SubSeq(TextBefore, 1, OffsetOf(LinesBefore, OpStartLn, OpStartCol))
              \o OpTxt
              \o SubSeq(TextBefore,
                        OffsetOf(LinesBefore, OpEndLn, OpEndCol) + 1,
                        Len(TextBefore))

\* a text of one newline has replaced a range over three lines that leaves a
\* prefix and a suffix, with lines after it
C14_Witness ==
  /\ MultiLineReplace
  /\ ColumnsInRange
  /\ Newlines(OpTxt) = 1
  /\ OpEndLn - OpStartLn = 2
  /\ StartPrefix # EmptyString
  /\ EndSuffix # EmptyString
  /\ OpEndLn < Len(LinesBefore)

\* a single-line operation on a line beyond the last line of the stored
\* text, its text without newline
LineExtension ==
  /\ OpStartLn = OpEndLn
  /\ OpStartLn > Len(LinesBefore)
  /\ Newlines(OpTxt) = 0

\* the stored text has exactly OpStartLn lines: the lines it had, then empty
\* lines, then op.text
ExtendedTo ==
  LET linesAfter == Split(TextAfter)
  IN /\ Len(linesAfter) = OpStartLn
     /\ \A n \in 1..Len(LinesBefore) : linesAfter[n] = LinesBefore[n]
     /\ \A n \in (Len(LinesBefore) + 1)..(OpStartLn - 1) :
          linesAfter[n] = EmptyString
     /\ linesAfter[OpStartLn] = OpTxt

\* C15: an accepted single-line operation on line n beyond the last line L,
\* its text without newline, stores a text of exactly n lines: the L lines
\* unchanged, lines L+1..n-1 empty, line n equal to op.text.
C15_LineExtension ==
  (Accepted /\ LineExtension) => (run.outcome = "done" /\ ExtendedTo)

\* the length of line n of the stored text, 0 for a line it does not have
LineLength(n) ==
  Len(OrEmpty(ArrayGet(paddedLines(TextBefore, OpStartLn), n - 1)))

\* the operation with startColumn clamped into [1, length of the start line
\* + 1] and endColumn into [1, length of the end line + 1]
ClampedOp ==
  EditOp(OpTxt,
         OpStartLn, Min(Max(1, OpStartCol), LineLength(OpStartLn) + 1),
         OpEndLn, Min(Max(1, OpEndCol), LineLength(OpEndLn) + 1))

\* C16: the text an accepted operation stores is the text the same operation
\* stores with its two columns clamped onto their lines.
C16_ColumnClamping ==
  Applied => TextAfter = updatedCode(TextBefore, ClampedOp)

(***************************************************************************)
(* The language of a room.                                                 *)
(***************************************************************************)
\* C17: updateLang from a resolved socket sends the tag to every other
\* socket of the room and to no one else, and leaves an entry for the room
\* whose language getLang returns as exactly that tag, the empty tag
\* included, with the empty text if the room had no entry; from an
\* unresolved socket it sends nothing and stores nothing.
C17_LanguageUpdate ==
  /\ RunDone("updateLang") =>
       /\ Len(emitted) = 1
       /\ emitted[1].msg = "UPDATE_LANG"
       /\ emitted[1].payload = run.langId
       /\ emitted[1].to = roomMembers(RunRoom) \ {run.socket}
       /\ roomExists(roomData, RunRoom)
       /\ getLang(roomData, RunRoom) = run.langId
       /\ ~roomExists(before, RunRoom) =>
            roomData[RunRoom].code = EmptyString
  /\ (run.handler = "updateLang" /\ run.outcome = "dropped") =>
       (emitted = << >> /\ roomData = before)

\* C18 as claimed: when updateLang emits, the store is still what it was
\* when the run began, the previous tag in it.
C18_BroadcastThenStore ==
  RunDone("updateLang") => emitted[1].store = before

\* C18: updateLang stores first and emits second: when it emits, the store
\* is already what the run leaves, with the new tag in the entry of the
\* room.
C18_StoreThenBroadcast ==
  RunDone("updateLang") =>
    /\ emitted[1].store = roomData
    /\ roomExists(emitted[1].store, RunRoom)
    /\ emitted[1].store[RunRoom].langId = run.langId

\* a tag has replaced another tag of a room that has a peer to tell
C18_Witness ==
  /\ RunDone("updateLang")
  /\ roomExists(before, RunRoom)
  /\ before[RunRoom].langId # run.langId
  /\ emitted[1].to # {}
  /\ emitted[1].store[RunRoom].langId = run.langId

(***************************************************************************)
(* Rooms.                                                                  *)
(***************************************************************************)
\* the room deleteRoom was called for
DeletedRoom == run.socket

\* C19: deleteRoom returns for every room id, with or without an entry;
\* after it the room has no entry, getCode returns the empty text and
\* getLang the default language; deleting a room without an entry changes
\* nothing, and so does deleting once more.
C19_DeleteRoom ==
  RunDone("deleteRoom") =>
    /\ ~roomExists(roomData, DeletedRoom)
    /\ DOMAIN roomData = DOMAIN before \ {DeletedRoom}
    /\ getCode(roomData, DeletedRoom) = EmptyString
    /\ getLang(roomData, DeletedRoom) = DEFAULT_LANG_ID
    /\ ~roomExists(before, DeletedRoom) => roomData = before
    /\ deleteRoom(roomData, DeletedRoom) = roomData

\* deleteRoom has been called for a room without an entry while the other
\* room has one
C19_Witness ==
  /\ RunDone("deleteRoom")
  /\ ~roomExists(before, DeletedRoom)
  /\ roomData = before
  /\ DOMAIN roomData # {}

\* the room the last run was for
EventRoom ==
  IF run.handler = "deleteRoom" THEN DeletedRoom
  ELSE IF run.handler \in {"updateCode", "syncCode", "syncLang", "updateLang"}
  THEN RunRoom
  ELSE NoValue

\* C20: a handler run for a socket of room A, and deleteRoom(A), leave the
\* entry of every other room as it was, there or not there, and send no
\* message to a socket that is not in room A.
C20_RoomIsolation ==
  EventRoom # NoValue =>
    /\ \A roomID \in RoomIDs \ {EventRoom} :
         /\ roomExists(roomData, roomID) <=> roomExists(before, roomID)
         /\ roomExists(roomData, roomID) => roomData[roomID] = before[roomID]
    /\ \A i \in 1..Len(emitted) :
         \A socket \in emitted[i].to : userRoom[socket] = EventRoom

\* a room has been deleted while the other room, with a socket in it, keeps
\* a text that is not empty
C20_Witness ==
  /\ RunDone("deleteRoom")
  /\ roomExists(before, DeletedRoom)
  /\ \E roomID \in RoomIDs \ {DeletedRoom} :
       /\ roomExists(roomData, roomID)
       /\ roomData[roomID].code # EmptyString
       /\ roomMembers(roomID) # {}

(***************************************************************************)
(* The lines above the start line.                                         *)
(***************************************************************************)
\* line n of the lines, the empty line where they have no line n
LineOrEmpty(lines, n) == IF n <= Len(lines) THEN lines[n] ELSE EmptyString

\* the stored text has the lines above the start line, each as it was
\* before, empty where the text before had none
PrefixPreserved ==
  LET linesAfter == Split(TextAfter)
  IN /\ Len(linesAfter) >= OpStartLn - 1
     /\ \A n \in 1..(OpStartLn - 1) :
          linesAfter[n] = LineOrEmpty(LinesBefore, n)

\* C21: after an accepted operation with startLine >= 1, whichever path it
\* takes, the first startLine - 1 lines of the stored text are the first
\* startLine - 1 lines of the text before, padded with empty lines.
C21_PrefixPreservation ==
  (Accepted /\ OpStartLn >= 1) => (run.outcome = "done" /\ PrefixPreserved)

(***************************************************************************)
(* The text and the language of a room, and when the room has an entry.    *)
(***************************************************************************)
\* the language the Map holds for the room, read without getLang
StoredLang(data, roomID) ==
  IF roomID \in DOMAIN data THEN data[roomID].langId ELSE DEFAULT_LANG_ID

\* C22: an accepted edit leaves the language of its room as it was, the
\* default language where it makes the entry; an accepted language update
\* leaves the text of its room as it was, the empty text where it makes the
\* entry.
C22_TextLangIndependent ==
  /\ Accepted =>
       /\ StoredLang(roomData, RunRoom) = StoredLang(before, RunRoom)
       /\ getLang(roomData, RunRoom) = getLang(before, RunRoom)
  /\ (Applied /\ ~roomExists(before, RunRoom)) =>
       roomData[RunRoom].langId = DEFAULT_LANG_ID
  /\ RunDone("updateLang") =>
       /\ StoredCode(roomData, RunRoom) = StoredCode(before, RunRoom)
       /\ getCode(roomData, RunRoom) = getCode(before, RunRoom)
  /\ (RunDone("updateLang") /\ ~roomExists(before, RunRoom)) =>
       roomData[RunRoom].code = EmptyString

\* an edit has changed the text of a room whose language is not the default
C22_Witness ==
  /\ Applied
  /\ roomExists(before, RunRoom)
  /\ before[RunRoom].langId = "python"
  /\ roomData[RunRoom].langId = "python"
  /\ roomData[RunRoom].code # before[RunRoom].code

\* the language updates the record holds for the room since it was last
\* deleted
LangUpdates(roomID) == OpsSince("lang", roomID)

\* C23: a room has an entry exactly when an accepted edit or an accepted
\* language update of the room has been handled since the room was last
\* deleted, or since the start; an edit that makes the entry is applied to
\* the empty text and leaves the default language, a language update that
\* makes it leaves the empty text.
C23_ExistenceInvariant ==
  /\ \A roomID \in RoomIDs :
       roomExists(roomData, roomID) <=>
         (AcceptedOps(roomID) # << >> \/ LangUpdates(roomID) # << >>)
  /\ (Applied /\ ~roomExists(before, RunRoom)) =>
       /\ roomData[RunRoom].code = updatedCode(EmptyString, run.operation)
       /\ roomData[RunRoom].langId = DEFAULT_LANG_ID
  /\ (RunDone("updateLang") /\ ~roomExists(before, RunRoom)) =>
       /\ roomData[RunRoom].code = EmptyString
       /\ roomData[RunRoom].langId = run.langId

(***************************************************************************)
(* The order of the relays.                                                *)
(***************************************************************************)
\* the entries of the record of the kind for the room, in order
EntriesOf(kind, roomID) ==
  SelectSeq(log, LAMBDA l : l.kind = kind /\ l.room = roomID)

\* the operations relayed to the socket by sockets of the room, in the order
\* of the emits
RelayedTo(socket, roomID) ==
  LET mine == SelectSeq(EntriesOf("relay", roomID),
                        LAMBDA l : socket \in l.to)
  IN [k \in 1..Len(mine) |-> mine[k].operation]

\* the operations applied to the text of the room whose relay went to the
\* socket, in the order they were applied
AppliedFor(socket, roomID) ==
  LET relays == EntriesOf("relay", roomID)
      applies == EntriesOf("apply", roomID)
      at == {k \in 1..Len(applies) : socket \in relays[k].to}
      mine == SelectSeq([k \in 1..Len(applies) |->
                           [operation |-> applies[k].operation, sent |-> k \in at]],
                        LAMBDA a : a.sent)
  IN [k \in 1..Len(mine) |-> mine[k].operation]

\* C24: for each room the relays emitted are as many as the operations
\* applied to its text, and each socket is sent the relays of the
\* operations in the order in which the operations were applied.
C24_RelayOrderIsApplyOrder ==
  \A roomID \in RoomIDs :
    /\ Len(EntriesOf("relay", roomID)) = Len(EntriesOf("apply", roomID))
    /\ \A socket \in SocketIDs :
         RelayedTo(socket, roomID) = AppliedFor(socket, roomID)


====
